---- MODULE Spec2Model ----
(***************************************************************************)
(* Model of sesh (src/sesh.go): an HTTP front end whose handlers talk to   *)
(* one session-manager goroutine over unbuffered channels, one request and *)
(* one response channel per operation kind.  The session map is a local    *)
(* variable of the manager goroutine.                                      *)
(*                                                                         *)
(* Strings are sequences of one-character tokens, so that fmt.Sprintf is   *)
(* concatenation.  A Go pointer is a sequence of length 0 (nil) or 1.      *)
(* A uuid.UUID is a pair <<first 8 hex digits, remaining digits>>.         *)
(***************************************************************************)
EXTENDS Integers, Sequences, FiniteSets, TLC

\* ---------------------------------------------------------------- bounds
NumHandlers == 2
NumIds == 3
NumSeconds == 1
MaxRequests == 3
MaxCreates == 2

\* ------------------------------------------------------ program constants
StatusOK == 200
StatusBadRequest == 400
StatusMethodNotAllowed == 405

Handlers == 1..NumHandlers

\* ------------------------------------------------------------- pointers
Nil == <<>>
Ptr(v) == <<v>>
Deref(p) == p[1]

\* ---------------------------------------------------------------- uuids
\* The identifiers uuid.NewRandom can return (version-4 UUIDs).
\* Two consecutive identifiers share their first 8 hex digits.
Ids == {<<ToString((i + 1) \div 2), ToString(i % 2)>> : i \in 1..NumIds}
\* uuid.Nil, the zero value of uuid.UUID; no version-4 UUID equals it.
ZeroId == <<"0", "0">>
\* id.String()[:8]
IdPrefix(id) == <<id[1]>>
\* id.String()
IdString(id) == <<id[1], id[2]>>

\* ---------------------------------------------------------- HTTP inputs
Methods == {"GET", "POST", "PUT"}
Paths == {"/create-session", "/list-sessions", "/close-session"}
Names == {<<>>, <<"a">>}

\* Request bodies of /create-session: not JSON, JSON without a name, JSON
\* with a string name (possibly the empty string).
CreateBodies ==
    {[kind |-> "badjson", val |-> <<>>], [kind |-> "noname", val |-> <<>>]}
        \cup {[kind |-> "name", val |-> n] : n \in Names}

\* Request bodies of /close-session: JSON without an id (or no JSON at
\* all), a null id, an id string that is no UUID, a well-formed UUID.
CloseBodies ==
    {[kind |-> k, val |-> ZeroId] : k \in {"noid", "null", "badid"}}
        \cup {[kind |-> "id", val |-> i] : i \in Ids}

NoBody == [kind |-> "none", val |-> <<>>]

\* The bodies a request is drawn with: a handler reads the body only under
\* the method it serves, so the other methods come without one.
BodiesOf(method, served, bodies) == IF method = served THEN bodies ELSE {NoBody}

\* decoder.Decode(&newSession): the error flag and the decoded struct.
DecodeCreate(body) ==
    IF body.kind = "badjson" THEN [err |-> TRUE, Name |-> Nil]
    ELSE IF body.kind = "noname" THEN [err |-> FALSE, Name |-> Nil]
    ELSE [err |-> FALSE, Name |-> Ptr(body.val)]

\* json.NewDecoder(r.Body).Decode(&closeSession), whose error is dropped.
\* A string that is no UUID leaves Id pointing at a zero UUID: the decoder
\* allocates the pointer before UnmarshalText fails.
DecodeClose(body) ==
    IF body.kind \in {"noid", "null"} THEN [Id |-> Nil]
    ELSE IF body.kind = "badid" THEN [Id |-> Ptr(ZeroId)]
    ELSE [Id |-> Ptr(body.val)]

\* ------------------------------------------------------- HTTP responses
\* code: the status line; statusHdr: the value of the "Status" header that
\* reaches the client (0 when none does); body: what was written.
NoHdr == 0

\* http.Error(w, msg, code)
HttpError(msg, code) == [code |-> code, statusHdr |-> NoHdr, body |-> msg]

\* A handler that returns without writing: net/http answers 200, no body.
EmptyReply == [code |-> StatusOK, statusHdr |-> NoHdr, body |-> <<>>]

\* Lines 117-119: the body is written first, which sends status 200 and
\* the headers; the headers added afterwards are not sent.
CreateReply(response) ==
    [code |-> StatusOK, statusHdr |-> NoHdr, body |-> response]

\* Lines 129-133.
ListReply(list) ==
    [code |-> StatusOK, statusHdr |-> NoHdr, body |-> [Sessions |-> list]]

\* Lines 146-147: a "Status" header is added, then the message is written
\* without WriteHeader, so the status line is 200.
CloseReply(result) ==
    [code |-> StatusOK, statusHdr |-> result.Status, body |-> result.Message]

\* ------------------------------------------------------- session manager
\* time.Now(): the wall clock, in whole seconds; any reading is possible
\* at any call (the wall clock can be set back).
TimeNow == 0..(NumSeconds - 1)

\* time.Now().Format(time.RFC3339): one-second resolution.
FormatTime(t) == <<ToString(t)>>

\* fmt.Sprintf("%s-%s-%s", name, creationTime, id.String()[:8]) joined to
\* the log directory.
SessionFilepath(name, creationTime, id) ==
    <<"logdir", "/">> \o name \o <<"-">> \o creationTime \o <<"-">> \o IdPrefix(id)

\* Mutant: the Name field is filled from the creation time.
NewSessionWrongName(id, name, t) ==
    [Id |-> id, Name |-> FormatTime(t), CreationTime |-> FormatTime(t),
     Filepath |-> SessionFilepath(name, FormatTime(t), id)]

\* The Session literal of lines 73-78.
NewSession(id, name, t) ==
    [Id |-> id, Name |-> name, CreationTime |-> FormatTime(t),
     Filepath |-> SessionFilepath(name, FormatTime(t), id)]

\* sessions[id] = s
MapPut(m, id, s) == [k \in DOMAIN m \cup {id} |-> IF k = id THEN s ELSE m[k]]

\* delete(sessions, id)
MapDelete(m, id) == [k \in DOMAIN m \ {id} |-> m[k]]

\* Lines 81-84: one slice per iteration order of the map.
RECURSIVE Orders(_)
Orders(S) ==
    IF S = {} THEN {<<>>}
    ELSE UNION {{<<k>> \o rest : rest \in Orders(S \ {k})} : k \in S}

\* Mutant: every element of the slice is the record of the key iterated
\* first.
ListResultsFirstOnly(m) == {[i \in 1..Len(o) |-> m[o[1]]] : o \in Orders(DOMAIN m)}

ListResults(m) == {[i \in 1..Len(o) |-> m[o[i]]] : o \in Orders(DOMAIN m)}

\* Lines 88-94: the response of a close and the map after it.
CloseMessage(found, id) ==
    IF found THEN <<"Successfully closed session with id">> \o IdString(id)
    ELSE <<"Session id">> \o IdString(id) \o <<"does not exist">>

\* Mutant: the else branch is missing, every close reports success.
CloseResponseAlwaysOK(m, id) ==
    [Message |-> CloseMessage(TRUE, id), Status |-> StatusOK]

CloseResponse(m, id) ==
    IF id \in DOMAIN m
    THEN [Message |-> CloseMessage(TRUE, id), Status |-> StatusOK]
    ELSE [Message |-> CloseMessage(FALSE, id), Status |-> StatusBadRequest]

\* Mutant: the delete is missing.
CloseStoreKeeps(m, id) == m

\* Mutant: a close keeps the record and marks it instead of deleting it.
CloseStoreMarks(m, id) ==
    IF id \in DOMAIN m
    THEN [m EXCEPT ![id] = [@ EXCEPT !.Name = <<"closed">>]]
    ELSE m

CloseStore(m, id) == IF id \in DOMAIN m THEN MapDelete(m, id) ELSE m


\* ---------------------------------------------------------------- state
VARIABLES
    sessions,   \* the manager's map uuid -> Session
    wpc,        \* where the manager goroutine is
    wreq,       \* the request the manager received and is serving
    wout,       \* the response the manager is sending
    pc,         \* where each handler goroutine is
    hreq,       \* the HTTP request each blocked handler serves
    last,       \* history: the HTTP exchange completed last
    alive,      \* FALSE once the process has died
    issued,     \* history: id -> the name of the create request it was made for
    returned,   \* history: the ids delivered to create callers
    ndelivered, \* history: number of create responses delivered
    closed,     \* history: the ids closed with success
    files,      \* the log files: path -> the lines written
    nreq        \* history: number of HTTP requests accepted so far

vars == <<sessions, wpc, wreq, wout, pc, hreq, last, alive,
          issued, returned, ndelivered, closed, files, nreq>>

NoReq == [kind |-> "none", val |-> <<>>, from |-> 0]
NoOut == [kind |-> "none", val |-> <<>>]
NoHttp == [path |-> "", method |-> "", body |-> NoBody]

\* What the history keeps of an exchange: the request line, the status
\* line and the "Status" header of the reply.
Exchange(req, resp) ==
    [path |-> req.path, method |-> req.method,
     code |-> resp.code, statusHdr |-> resp.statusHdr]

Init ==
    /\ sessions = <<>>
    /\ wpc = "select"
    /\ wreq = NoReq
    /\ wout = NoOut
    /\ pc = [h \in Handlers |-> "idle"]
    /\ hreq = [h \in Handlers |-> NoHttp]
    /\ last = Exchange(NoHttp, EmptyReply)
    /\ alive = TRUE
    /\ issued = <<>>
    /\ returned = {}
    /\ ndelivered = 0
    /\ closed = {}
    /\ files = <<>>
    /\ nreq = 0

\* ------------------------------------------------------------- handlers
\* What a handler does up to its first channel operation: the place it
\* blocks at, or "done" with the response it wrote.
CreateEntry(method, body) ==
    IF method # "POST"
    THEN [pc |-> "done", resp |-> HttpError(<<"Not allowed">>, StatusMethodNotAllowed)]
    ELSE IF DecodeCreate(body).err
    THEN [pc |-> "done", resp |-> HttpError(<<"decode error">>, StatusBadRequest)]
    ELSE IF DecodeCreate(body).Name = Nil
    THEN [pc |-> "done",
          resp |-> HttpError(<<"Invalid create session object">>, StatusBadRequest)]
    ELSE [pc |-> "sendCreate", resp |-> EmptyReply]

ListEntry(method) ==
    IF method # "GET"
    THEN [pc |-> "done", resp |-> HttpError(<<"Not allowed">>, StatusMethodNotAllowed)]
    ELSE [pc |-> "sendList", resp |-> EmptyReply]

\* The switch of /close-session has no default case, and the decode error
\* is not looked at.
CloseEntry(method, body) ==
    IF method # "POST"
    THEN [pc |-> "done", resp |-> EmptyReply]
    ELSE [pc |-> "sendClose", resp |-> EmptyReply]

\* Creates that wait to be received by the manager.
CreatesWaiting == Cardinality({h \in Handlers : pc[h] = "sendCreate"})

\* The server starts a handler goroutine for a request; the goroutine runs
\* to its first channel operation, or to its end.
Accept(h, path, method, body, entry) ==
    /\ alive
    /\ pc[h] = "idle"
    /\ nreq < MaxRequests
    /\ nreq' = nreq + 1
    /\ IF entry.pc = "done"
       THEN /\ last' = Exchange([path |-> path, method |-> method, body |-> body],
                                 entry.resp)
            /\ UNCHANGED <<pc, hreq>>
       ELSE /\ pc' = [pc EXCEPT ![h] = entry.pc]
            /\ hreq' = [hreq EXCEPT ![h] =
                            [path |-> path, method |-> method, body |-> body]]
            /\ UNCHANGED last
    /\ UNCHANGED <<sessions, wpc, wreq, wout, alive,
                   issued, returned, ndelivered, closed, files>>

\* Lines 100-114: /create-session up to createSessionReq <- newSession.
CreateHandlerBegin(h) ==
    \E method \in Methods : \E body \in BodiesOf(method, "POST", CreateBodies) :
        /\ CreateEntry(method, body).pc = "sendCreate"
              => Cardinality(DOMAIN issued) + CreatesWaiting < MaxCreates
        /\ Accept(h, "/create-session", method, body, CreateEntry(method, body))

\* Lines 126-130: /list-sessions up to listSessionReq <- true.
ListHandlerBegin(h) ==
    \E method \in Methods :
        Accept(h, "/list-sessions", method, NoBody, ListEntry(method))

\* Lines 139-144: /close-session up to closeSessionReq <- closeSession.
CloseHandlerBegin(h) ==
    \E method \in Methods : \E body \in BodiesOf(method, "POST", CloseBodies) :
        Accept(h, "/close-session", method, body, CloseEntry(method, body))

\* A receive from one of the response channels: any handler blocked in that
\* receive may take the value the manager is sending.  The handler then
\* writes its reply and ends.
Receive(h, at, sending, reply) ==
    /\ alive
    /\ pc[h] = at
    /\ wpc = sending
    /\ pc' = [pc EXCEPT ![h] = "idle"]
    /\ hreq' = [hreq EXCEPT ![h] = NoHttp]
    /\ last' = Exchange(hreq[h], reply)
    /\ wpc' = "select"
    /\ wout' = NoOut
    /\ wreq' = NoReq
    /\ UNCHANGED <<sessions, alive, issued, closed, files, nreq>>

\* Mutant: the handler waits for its response on listSessionRes.
CreateHandlerEndWrongChannel(h) ==
    /\ Receive(h, "recvCreate", "sendListRes", CreateReply(wout.val))
    /\ returned' = returned \cup {wout.val.Id}
    /\ ndelivered' = ndelivered + 1

\* Lines 115-120.
CreateHandlerEnd(h) ==
    /\ Receive(h, "recvCreate", "sendCreateRes", CreateReply(wout.val))
    /\ returned' = returned \cup {wout.val.Id}
    /\ ndelivered' = ndelivered + 1

\* Lines 131-133.
ListHandlerEnd(h) ==
    /\ Receive(h, "recvList", "sendListRes", ListReply(wout.val))
    /\ UNCHANGED <<returned, ndelivered>>

\* Lines 145-147.
CloseHandlerEnd(h) ==
    /\ Receive(h, "recvClose", "sendCloseRes", CloseReply(wout.val))
    /\ UNCHANGED <<returned, ndelivered>>

\* -------------------------------------------------------------- manager
\* Mutant: an identifier source that can repeat itself.
NewRandomRepeating(used) == Ids

\* uuid.NewRandom(): a version-4 UUID; the library's contract is that it
\* repeats no identifier it has returned.
NewRandom(used) == Ids \ used

\* Mutant: requests are taken while a response is still undelivered, as
\* with buffered channels.
ManagerAlwaysReady(w) == TRUE

\* The manager receives in its select only: while it is sending a response
\* the unbuffered request channels have no receiver.
ManagerReady(w) == w = "select"

\* Mutant: the response carries an identifier other than the key the
\* record was stored under.
CreateResponseZero(id) == [Id |-> ZeroId]

\* CreateSessionResponse{id}
CreateResponse(id) == [Id |-> id]

\* Lines 70-79: receive on createSessionReq from handler h, insert, and
\* block sending the response.
ManagerCreate(h) ==
    /\ alive
    /\ ManagerReady(wpc)
    /\ pc[h] = "sendCreate"
    /\ \E id \in NewRandom(DOMAIN issued), t \in TimeNow :
        LET name == Deref(DecodeCreate(hreq[h].body).Name) IN
        /\ sessions' = MapPut(sessions, id, NewSession(id, name, t))
        /\ wout' = [kind |-> "create", val |-> CreateResponse(id)]
        /\ issued' = MapPut(issued, id, hreq[h].body.val)
    /\ wreq' = [kind |-> "create", val |-> DecodeCreate(hreq[h].body).Name, from |-> h]
    /\ wpc' = "sendCreateRes"
    /\ pc' = [pc EXCEPT ![h] = "recvCreate"]
    /\ UNCHANGED <<hreq, last, alive, returned, ndelivered, closed, files, nreq>>

\* Lines 80-85.
ManagerList(h) ==
    /\ alive
    /\ ManagerReady(wpc)
    /\ pc[h] = "sendList"
    /\ \E results \in ListResults(sessions) :
        wout' = [kind |-> "list", val |-> results]
    /\ wreq' = [kind |-> "list", val |-> <<>>, from |-> h]
    /\ wpc' = "sendListRes"
    /\ pc' = [pc EXCEPT ![h] = "recvList"]
    /\ UNCHANGED <<sessions, hreq, last, alive,
                   issued, returned, ndelivered, closed, files, nreq>>

\* Lines 86-94.  *closeSession.Id with a nil Id is a nil-pointer
\* dereference: the goroutine panics and the process exits.
ManagerClose(h) ==
    /\ alive
    /\ ManagerReady(wpc)
    /\ pc[h] = "sendClose"
    /\ wreq' = [kind |-> "close", val |-> DecodeClose(hreq[h].body).Id, from |-> h]
    /\ pc' = [pc EXCEPT ![h] = "recvClose"]
    /\ IF DecodeClose(hreq[h].body).Id = Nil
       THEN /\ wpc' = "panicked"
            /\ alive' = FALSE
            /\ UNCHANGED <<sessions, wout, closed>>
       ELSE LET id == Deref(DecodeClose(hreq[h].body).Id) IN
            /\ sessions' = CloseStore(sessions, id)
            /\ wout' = [kind |-> "close", val |-> CloseResponse(sessions, id)]
            /\ closed' = IF id \in DOMAIN sessions THEN closed \cup {id} ELSE closed
            /\ wpc' = "sendCloseRes"
            /\ UNCHANGED alive
    /\ UNCHANGED <<hreq, last, issued, returned, ndelivered, files, nreq>>

Next ==
    \/ \E h \in Handlers : CreateHandlerBegin(h)
    \/ \E h \in Handlers : ListHandlerBegin(h)
    \/ \E h \in Handlers : CloseHandlerBegin(h)
    \/ \E h \in Handlers : ManagerCreate(h)
    \/ \E h \in Handlers : ManagerList(h)
    \/ \E h \in Handlers : ManagerClose(h)
    \/ \E h \in Handlers : CreateHandlerEnd(h)
    \/ \E h \in Handlers : ListHandlerEnd(h)
    \/ \E h \in Handlers : CloseHandlerEnd(h)

Spec == Init /\ [][Next]_vars

\* ------------------------------------------------------------- fairness
\* What the Go runtime gives the goroutines.  A handler blocked in a send
\* on a request channel waits in that channel's FIFO queue of senders, and
\* the manager's select chooses among its ready cases at random: every
\* time the manager is in its select the handler's send is one of the
\* ready ones, so it is taken eventually (strong fairness: the manager is
\* not in its select continuously).  A handler blocked in the receive of
\* the response the manager is sending is runnable until it has taken it
\* (weak fairness).  Nothing obliges a client to send a request.
Fairness ==
    \A h \in Handlers :
        /\ SF_vars(ManagerCreate(h))
        /\ SF_vars(ManagerList(h))
        /\ SF_vars(ManagerClose(h))
        /\ WF_vars(CreateHandlerEnd(h))
        /\ WF_vars(ListHandlerEnd(h))
        /\ WF_vars(CloseHandlerEnd(h))

SpecFair == Spec /\ Fairness

\* -------------------------------------------------------- write-session
\* POST /write-session and the manager's write case are not in sesh.go;
\* they follow the specification: sections 4.2, 6 and 7.
StatusInternalServerError == 500

Contents == {<<"x">>, <<"y">>}

\* Request bodies of /write-session: a required field missing, or an id
\* with a content.
WriteBodies ==
    {[kind |-> "missing", val |-> <<ZeroId, <<>>>>]}
        \cup {[kind |-> "write", val |-> <<i, c>>] : i \in Ids, c \in Contents}

\* Malformed input is rejected at the boundary with 400; other methods get
\* 405.
WriteEntry(method, body) ==
    IF method # "POST"
    THEN [pc |-> "done", resp |-> HttpError(<<"Not allowed">>, StatusMethodNotAllowed)]
    ELSE IF body.kind # "write"
    THEN [pc |-> "done",
          resp |-> HttpError(<<"Invalid write session object">>, StatusBadRequest)]
    ELSE [pc |-> "sendWrite", resp |-> EmptyReply]

\* The reply carries the result's status and message.
WriteReply(result) ==
    [code |-> result.Status, statusHdr |-> NoHdr, body |-> result.Message]

\* The line a write adds: the content prefixed with a timestamp.
WriteLine(t, content) == <<FormatTime(t), content>>

\* "ensure file at path exists" (idempotent create).
FileEnsure(fs, path) ==
    IF path \in DOMAIN fs THEN fs
    ELSE [p \in DOMAIN fs \cup {path} |-> IF p = path THEN <<>> ELSE fs[p]]

\* Mutant: the file is opened truncating instead of appending.
FileTruncateWrite(fs, path, line) ==
    [p \in DOMAIN fs \cup {path} |-> IF p = path THEN <<line>> ELSE fs[p]]

\* "open for append, write one line, flush/sync, close".
FileAppend(fs, path, line) ==
    [p \in DOMAIN fs \cup {path} |->
        IF p = path
        THEN Append(IF path \in DOMAIN fs THEN fs[path] ELSE <<>>, line)
        ELSE fs[p]]

\* What the filesystem collaborator can do with one write.
WriteOutcomes == {"ok", "createFailed", "appendFailed"}

FilesAfter(fs, path, line, outcome) ==
    IF outcome = "ok" THEN FileAppend(FileEnsure(fs, path), path, line)
    ELSE IF outcome = "appendFailed" THEN FileEnsure(fs, path)
    ELSE fs

\* Mutant: the outcome of the file operations is not looked at, every
\* write to an existing session reports success.
WriteResponseAlwaysOK(outcome) ==
    [Message |-> <<"Successfully wrote to session">>, Status |-> StatusOK]

WriteResponse(outcome) ==
    IF outcome = "ok"
    THEN [Message |-> <<"Successfully wrote to session">>, Status |-> StatusOK]
    ELSE [Message |-> <<"write failed", outcome>>,
          Status |-> StatusInternalServerError]

WriteHandlerBegin(h) ==
    \E method \in Methods : \E body \in BodiesOf(method, "POST", WriteBodies) :
        Accept(h, "/write-session", method, body, WriteEntry(method, body))

\* The write case of the manager: look the record up, have the line
\* appended to its file, leave the store alone whatever happens.
ManagerWrite(h) ==
    /\ alive
    /\ ManagerReady(wpc)
    /\ pc[h] = "sendWrite"
    /\ wreq' = [kind |-> "write", val |-> hreq[h].body.val, from |-> h]
    /\ wpc' = "sendWriteRes"
    /\ pc' = [pc EXCEPT ![h] = "recvWrite"]
    /\ LET id == hreq[h].body.val[1]
           content == hreq[h].body.val[2]
       IN IF id \notin DOMAIN sessions
          THEN /\ wout' = [kind |-> "write",
                           val |-> [Message |-> CloseMessage(FALSE, id),
                                    Status |-> StatusBadRequest]]
               /\ UNCHANGED files
          ELSE \E outcome \in WriteOutcomes, t \in TimeNow :
               /\ files' = FilesAfter(files, sessions[id].Filepath,
                                      WriteLine(t, content), outcome)
               /\ wout' = [kind |-> "write", val |-> WriteResponse(outcome)]
    /\ UNCHANGED <<sessions, hreq, last, alive, issued, returned, ndelivered,
                   closed, nreq>>

WriteHandlerEnd(h) ==
    /\ Receive(h, "recvWrite", "sendWriteRes", WriteReply(wout.val))
    /\ UNCHANGED <<returned, ndelivered>>

NextWrite ==
    \/ \E h \in Handlers : CreateHandlerBegin(h)
    \/ \E h \in Handlers : ListHandlerBegin(h)
    \/ \E h \in Handlers : CloseHandlerBegin(h)
    \/ \E h \in Handlers : WriteHandlerBegin(h)
    \/ \E h \in Handlers : ManagerCreate(h)
    \/ \E h \in Handlers : ManagerList(h)
    \/ \E h \in Handlers : ManagerClose(h)
    \/ \E h \in Handlers : ManagerWrite(h)
    \/ \E h \in Handlers : CreateHandlerEnd(h)
    \/ \E h \in Handlers : ListHandlerEnd(h)
    \/ \E h \in Handlers : CloseHandlerEnd(h)
    \/ \E h \in Handlers : WriteHandlerEnd(h)

SpecWrite == Init /\ [][NextWrite]_vars

\* ---------------------------------------------------------------- claims
ListIds(list) == {list[i].Id : i \in 1..Len(list)}

\* The identifier a close message names.
NamedId(msg) == <<msg[2], msg[3]>>

\* C1: creates issued by any number of concurrent handlers each deliver an
\* identifier, the identifiers delivered are pairwise distinct, and a list
\* served after them (no close having succeeded) holds exactly one record
\* per identifier delivered.
C1_ConcurrentCreates ==
    /\ returned \subseteq Ids
    /\ Cardinality(returned) = ndelivered
    /\ (wpc = "sendListRes" /\ closed = {}) =>
          /\ Len(wout.val) = ndelivered
          /\ ListIds(wout.val) = returned

C1_Witness ==
    /\ wpc = "sendListRes"
    /\ closed = {}
    /\ ndelivered = 2
    /\ Len(wout.val) = 2

\* C2: the response the manager is sending can be received only by the
\* handler whose request it serves, and it is that request's result: the
\* id of the record made for the caller's name, the close message naming
\* the id the caller sent.
C2_OwnResult ==
    /\ \A h \in Handlers :
          /\ pc[h] = "recvCreate" => wpc = "sendCreateRes" /\ wreq.from = h
          /\ pc[h] = "recvList" => wpc = "sendListRes" /\ wreq.from = h
          /\ pc[h] = "recvClose" =>
                wpc \in {"sendCloseRes", "panicked"} /\ wreq.from = h
    /\ wpc = "sendCreateRes" =>
          /\ pc[wreq.from] = "recvCreate"
          /\ wout.val.Id \in DOMAIN sessions
          /\ sessions[wout.val.Id].Name = hreq[wreq.from].body.val
    /\ wpc = "sendListRes" => pc[wreq.from] = "recvList"
    /\ wpc = "sendCloseRes" =>
          /\ pc[wreq.from] = "recvClose"
          /\ hreq[wreq.from].body.kind = "id" =>
                NamedId(wout.val.Message) = hreq[wreq.from].body.val

C2_Witness ==
    \E h1, h2 \in Handlers :
        /\ h1 # h2
        /\ pc[h1] = "recvCreate"
        /\ pc[h2] = "sendCreate"
        /\ hreq[h1].body.val # hreq[h2].body.val

\* C3: a list served after a create returned X, and before any close of X,
\* holds exactly one record with id X, whose name is the one the create
\* request carried; and X was returned by no earlier create.
C3_CreateThenList ==
    /\ wpc = "sendListRes" =>
          \A X \in returned \ closed :
              /\ Cardinality({i \in 1..Len(wout.val) : wout.val[i].Id = X}) = 1
              /\ \A i \in 1..Len(wout.val) :
                    wout.val[i].Id = X => wout.val[i].Name = issued[X]
    /\ wpc = "sendCreateRes" => wout.val.Id \notin returned

C3_Witness ==
    /\ wpc = "sendListRes"
    /\ \E X \in returned \ closed : issued[X] = <<"a">>
    /\ ndelivered = 2

\* C4: a close of an identifier that is not in the store answers with the
\* not-found result, does not stop the manager, and leaves the store as it
\* was.
C4_CloseAbsent ==
    [][(/\ wpc = "select"
        /\ wreq'.kind = "close"
        /\ wreq'.val # Nil
        /\ Deref(wreq'.val) \notin DOMAIN sessions)
       => (/\ sessions' = sessions
           /\ alive'
           /\ wpc' = "sendCloseRes"
           /\ wout'.val.Status = StatusBadRequest
           /\ wout'.val.Message = CloseMessage(FALSE, Deref(wreq'.val)))]_vars

C4_Witness ==
    /\ wpc = "sendCloseRes"
    /\ wout.val.Status = StatusBadRequest
    /\ DOMAIN sessions # {}

\* C5: a close of an identifier that a create returned and no close has
\* removed answers with success and removes the record; no list served
\* afterwards holds that identifier.
C5_CloseRemoves ==
    /\ closed \cap DOMAIN sessions = {}
    /\ (returned \ closed) \subseteq DOMAIN sessions
    /\ wpc = "sendCloseRes" =>
          /\ wout.val.Status = StatusOK => Deref(wreq.val) \in closed
          /\ wout.val.Status # StatusOK => Deref(wreq.val) \notin returned \ closed
    /\ wpc = "sendListRes" => ListIds(wout.val) \cap closed = {}

C5_Witness ==
    /\ wpc = "sendListRes"
    /\ closed # {}
    /\ closed \subseteq returned

\* C6: no request with a missing or empty required field is handed to the
\* manager: a handler at a channel operation carries a non-empty name
\* (create) or a decoded identifier (close).
C6_MalformedNeverForwarded ==
    \A h \in Handlers :
        /\ pc[h] \in {"sendCreate", "recvCreate"} =>
              hreq[h].body.kind = "name" /\ hreq[h].body.val # <<>>
        /\ pc[h] \in {"sendClose", "recvClose"} => hreq[h].body.kind = "id"

\* C7: no forwarded request stops the manager loop or ends the process.
C7_ManagerNeverStops == alive /\ wpc # "panicked"

\* C8: a POST to /close-session is answered with status 200 when the
\* manager found and removed the identifier and with status 400 when the
\* manager did not find it.
C8_CloseStatus ==
    (last.path = "/close-session" /\ last.method = "POST") =>
        /\ last.statusHdr = StatusOK => last.code = StatusOK
        /\ last.statusHdr = StatusBadRequest => last.code = StatusBadRequest

\* C9: a request with a method the path does not serve is answered 405.
C9_OtherMethods ==
    /\ (last.path = "/create-session" /\ last.method # "POST")
          => last.code = StatusMethodNotAllowed
    /\ (last.path = "/list-sessions" /\ last.method # "GET")
          => last.code = StatusMethodNotAllowed
    /\ (last.path = "/close-session" /\ last.method # "POST")
          => last.code = StatusMethodNotAllowed

\* The lines of the file at a path; none when the file does not exist.
FileLines(fs, path) == IF path \in DOMAIN fs THEN fs[path] ELSE <<>>

\* C10: a write to an existing identifier that succeeds appends exactly
\* one line, carrying the request's content, at the end of that session's
\* file and changes no other file, so that sequential writes leave their
\* lines in call order.
C10_WriteAppendsOneLine ==
    [][(/\ wpc = "select"
        /\ wpc' = "sendWriteRes"
        /\ wout'.val.Status = StatusOK)
       => LET id == wreq'.val[1]
              path == sessions[id].Filepath
              old == FileLines(files, path)
          IN /\ id \in DOMAIN sessions
             /\ path \in DOMAIN files'
             /\ Len(files'[path]) = Len(old) + 1
             /\ SubSeq(files'[path], 1, Len(old)) = old
             /\ files'[path][Len(old) + 1][2] = wreq'.val[2]
             /\ \A p \in DOMAIN files' \ {path} :
                    p \in DOMAIN files /\ files'[p] = files[p]
             /\ sessions' = sessions]_vars

C10_Witness ==
    \E id \in DOMAIN sessions :
        /\ Len(FileLines(files, sessions[id].Filepath)) = 2
        /\ files[sessions[id].Filepath][1][2] = <<"x">>
        /\ files[sessions[id].Filepath][2][2] = <<"y">>
        /\ wpc = "sendWriteRes"
        /\ wout.val.Status = StatusOK


\* C11: a write that fails leaves the registry untouched.  A write naming
\* an identifier that is not in the store answers with an error result and
\* leaves the files as they were; a write to an existing identifier whose
\* line did not reach the file (create, append or flush failed) answers
\* with the failure result, and the session's record stays in the store as
\* it was.
C11_FailedWriteKeepsStore ==
    [][(/\ wpc = "select"
        /\ wpc' = "sendWriteRes")
       => LET id == wreq'.val[1] IN
          /\ id \notin DOMAIN sessions =>
                /\ wout'.val.Status = StatusBadRequest
                /\ files' = files
                /\ sessions' = sessions
          /\ id \in DOMAIN sessions =>
                LET path == sessions[id].Filepath IN
                Len(FileLines(files', path)) = Len(FileLines(files, path)) =>
                    /\ wout'.val.Status = StatusInternalServerError
                    /\ id \in DOMAIN sessions'
                    /\ sessions'[id] = sessions[id]
                    /\ sessions' = sessions]_vars

\* A failed write to a session that is in the store, whose file already
\* holds a line.
C11_Witness ==
    /\ wpc = "sendWriteRes"
    /\ wout.val.Status = StatusInternalServerError
    /\ wreq.val[1] \in DOMAIN sessions
    /\ Len(FileLines(files, sessions[wreq.val[1]].Filepath)) = 1


\* The handlers whose request the manager has received and not answered.
Unanswered == {h \in Handlers : pc[h] \in {"recvCreate", "recvList", "recvClose"}}

\* C12: the manager serves one operation at a time: at most one request
\* has been received and not yet answered, it is the one the manager is
\* serving, and the manager is back in its select only when no received
\* request is unanswered, so that it receives no further request before.
C12_OneAtATime ==
    /\ Cardinality(Unanswered) <= 1
    /\ wpc = "select" <=> Unanswered = {}
    /\ wpc # "select" => wreq.kind # "none" /\ Unanswered = {wreq.from}
    /\ \A h \in Handlers :
          pc[h] \in {"sendCreate", "sendList", "sendClose"} => wreq.from # h

\* One request is being answered while another handler waits to be
\* received.
C12_Witness ==
    \E h1, h2 \in Handlers :
        /\ pc[h1] = "recvCreate"
        /\ wpc = "sendCreateRes"
        /\ pc[h2] = "sendClose"


\* The sequential map the registry is compared with: its three operations,
\* each giving the map after the operation and the result returned.
SeqCreate(m, id, rec) ==
    [store |-> [k \in DOMAIN m \cup {id} |-> IF k = id THEN rec ELSE m[k]],
     out |-> [Id |-> id]]

SeqIsListing(q, m) ==
    /\ Len(q) = Cardinality(DOMAIN m)
    /\ \A k \in DOMAIN m : \E i \in 1..Len(q) : q[i] = m[k]

SeqClose(m, id) ==
    IF id \in DOMAIN m
    THEN [store |-> [k \in DOMAIN m \ {id} |-> m[k]],
          out |-> [Message |-> CloseMessage(TRUE, id), Status |-> StatusOK]]
    ELSE [store |-> m,
          out |-> [Message |-> CloseMessage(FALSE, id), Status |-> StatusBadRequest]]

\* C13: the registry behaves as a sequential map under one lock.  The
\* store changes only in the step in which the manager dequeues a request,
\* which lies between the request's submission and its response; that step
\* is one whole operation of the sequential map applied to the store the
\* previous operation left, and its result is the one the submitting
\* handler then receives, unaltered.
C13_SequentialMap ==
    [][IF wpc = "select" /\ wpc' # "select"
       THEN LET h == wreq'.from IN
            /\ pc[h] \in {"sendCreate", "sendList", "sendClose"}
            /\ pc'[h] \in {"recvCreate", "recvList", "recvClose"}
            /\ wreq'.kind = "create" =>
                  LET id == wout'.val.Id IN
                  /\ id \notin DOMAIN sessions
                  /\ sessions'[id].Id = id
                  /\ sessions'[id].Name = Deref(DecodeCreate(hreq[h].body).Name)
                  /\ sessions' = SeqCreate(sessions, id, sessions'[id]).store
                  /\ wout'.val = SeqCreate(sessions, id, sessions'[id]).out
            /\ wreq'.kind = "list" =>
                  /\ sessions' = sessions
                  /\ SeqIsListing(wout'.val, sessions)
            /\ wreq'.kind = "close" =>
                  IF wreq'.val = Nil
                  THEN sessions' = sessions
                  ELSE /\ Deref(wreq'.val) = Deref(DecodeClose(hreq[h].body).Id)
                       /\ sessions' = SeqClose(sessions, Deref(wreq'.val)).store
                       /\ wout'.val = SeqClose(sessions, Deref(wreq'.val)).out
       ELSE /\ sessions' = sessions
            /\ wpc # "select" /\ wpc' = "select" =>
                  /\ pc[wreq.from] # "idle" /\ pc'[wreq.from] = "idle"
                  /\ wpc = "sendCreateRes" => returned' = returned \cup {wout.val.Id}
                  /\ wpc = "sendCloseRes" => last'.statusHdr = wout.val.Status
            /\ wpc' # "select" => wout' = wout]_vars

\* A close has taken effect and is being answered while another handler
\* has submitted a create that the manager has not dequeued.
C13_Witness ==
    /\ wpc = "sendCloseRes"
    /\ wout.val.Status = StatusOK
    /\ closed # {}
    /\ \E h \in Handlers : pc[h] = "sendCreate"


\* C14: a close of an identifier X that a create has delivered to its
\* caller, and that no close has removed since, is answered with the
\* success result, whatever creates and lists were served in between; the
\* success reaches the caller.
C14_CreateThenClose ==
    [][/\ (/\ wpc = "select"
           /\ wreq'.kind = "close"
           /\ wreq'.val # Nil
           /\ Deref(wreq'.val) \in returned \ closed)
          => /\ wpc' = "sendCloseRes"
             /\ wout'.val.Status = StatusOK
             /\ wout'.val.Message = CloseMessage(TRUE, Deref(wreq'.val))
       /\ (/\ wpc = "sendCloseRes"
           /\ wpc' = "select"
           /\ wout.val.Status = StatusOK)
          => /\ last'.path = "/close-session"
             /\ last'.statusHdr = StatusOK
             /\ last'.code = StatusOK]_vars

\* A close of a delivered identifier succeeds after another caller's
\* create was served.
C14_Witness ==
    /\ wpc = "sendCloseRes"
    /\ wout.val.Status = StatusOK
    /\ Deref(wreq.val) \in returned
    /\ Cardinality(DOMAIN issued) = 2
    /\ Cardinality(DOMAIN sessions) = 1


\* C15: a record is never altered after its insertion.  Every record in
\* the store has its key as id, the name of the create request it was made
\* for, and the file path made of that name, its creation time and its
\* id; a step keeps every record it does not remove exactly as it was; and
\* a record leaves the store only in the manager's close of its key.
C15_RecordsImmutable ==
    [][/\ \A k \in DOMAIN sessions' :
             /\ sessions'[k].Id = k
             /\ sessions'[k].Name = issued'[k]
             /\ sessions'[k].Filepath =
                   SessionFilepath(issued'[k], sessions'[k].CreationTime, k)
       /\ \A k \in DOMAIN sessions :
             IF k \in DOMAIN sessions'
             THEN sessions'[k] = sessions[k]
             ELSE /\ wpc = "select"
                  /\ wreq'.kind = "close"
                  /\ wreq'.val = Ptr(k)]_vars

\* A record outlives the close of another record.
C15_Witness ==
    /\ wpc = "sendCloseRes"
    /\ wout.val.Status = StatusOK
    /\ Cardinality(DOMAIN sessions) = 1
    /\ \E k \in DOMAIN sessions : k \in returned


\* C16: no two sessions that are in the store at the same time have the
\* same file path.
C16_DistinctFilepaths ==
    \A k1, k2 \in DOMAIN sessions :
        k1 # k2 => sessions[k1].Filepath # sessions[k2].Filepath


\* C17: serving a list leaves the store as it was, and the slice sent
\* holds each record that is in the store at that moment exactly once and
\* nothing else, so its length is the size of the store.
C17_ListExact ==
    [][(/\ wpc = "select"
        /\ wreq'.kind = "list")
       => /\ sessions' = sessions
          /\ wpc' = "sendListRes"
          /\ Len(wout'.val) = Cardinality(DOMAIN sessions)
          /\ \A k \in DOMAIN sessions :
                Cardinality({i \in 1..Len(wout'.val) : wout'.val[i] = sessions[k]}) = 1
          /\ \A i \in 1..Len(wout'.val) :
                \E k \in DOMAIN sessions : wout'.val[i] = sessions[k]]_vars

\* A list of a store of two sessions.
C17_Witness ==
    /\ wpc = "sendListRes"
    /\ Len(wout.val) = 2
    /\ wout.val[1].Id # wout.val[2].Id
    /\ {wout.val[1].Id, wout.val[2].Id} = DOMAIN sessions


\* Every request that is with the manager, or waits for it, carries the
\* fields its operation needs: a close carries an identifier.
ValidFields ==
    \A h \in Handlers :
        pc[h] \in {"sendClose", "recvClose"} => DecodeClose(hreq[h].body).Id # Nil

\* C18: under the fairness of the Go scheduler, as long as the requests
\* sent to the manager carry valid fields, every handler that has
\* submitted an operation is eventually given its result and ends.
C18_EveryRequestAnswered ==
    []ValidFields => \A h \in Handlers : (pc[h] # "idle") ~> (pc[h] = "idle")

\* A close with a valid identifier waits to be received while the manager
\* answers another handler's create and the store holds a session.
C18_Witness ==
    /\ alive
    /\ \E h1, h2 \in Handlers :
          /\ pc[h1] = "sendClose"
          /\ hreq[h1].body.kind = "id"
          /\ pc[h2] = "recvCreate"
          /\ wpc = "sendCreateRes"
          /\ Cardinality(DOMAIN sessions) = 2


\* C19: the store holds as many records as the manager has completed
\* creates minus the closes it answered with success.  Its membership
\* changes only in the manager's create step, which adds exactly one key,
\* one the store did not hold, and in a successful close step, which
\* removes exactly the key named; every other record stays as it was.
C19_StoreAccounting ==
    [][/\ Cardinality(DOMAIN sessions') =
             Cardinality(DOMAIN issued') - Cardinality(closed')
       /\ DOMAIN sessions' # DOMAIN sessions =>
             /\ wpc = "select"
             /\ \/ /\ wreq'.kind = "create"
                   /\ wout'.val.Id \notin DOMAIN sessions
                   /\ DOMAIN sessions' = DOMAIN sessions \cup {wout'.val.Id}
                   /\ Cardinality(DOMAIN issued') = Cardinality(DOMAIN issued) + 1
                   /\ closed' = closed
                \/ /\ wreq'.kind = "close"
                   /\ wout'.val.Status = StatusOK
                   /\ Deref(wreq'.val) \in DOMAIN sessions
                   /\ DOMAIN sessions' = DOMAIN sessions \ {Deref(wreq'.val)}
                   /\ Cardinality(closed') = Cardinality(closed) + 1
                   /\ issued' = issued
       /\ DOMAIN sessions' = DOMAIN sessions =>
             /\ Cardinality(DOMAIN issued') = Cardinality(DOMAIN issued)
             /\ closed' = closed
       /\ \A k \in DOMAIN sessions \cap DOMAIN sessions' :
             sessions'[k] = sessions[k]]_vars

\* Two creates completed and one close answered with success: one record.
C19_Witness ==
    /\ Cardinality(DOMAIN issued) = 2
    /\ Cardinality(closed) = 1
    /\ Cardinality(DOMAIN sessions) = 1
    /\ wpc = "select"


\* C20: a close is effective at most once for an identifier.  A close of
\* an identifier that an earlier close has removed answers with the
\* not-found result and leaves the store as it was; so a close answered
\* with success is the first such for its identifier, also among closes
\* submitted concurrently.
C20_CloseOnce ==
    [][(/\ wpc = "select"
        /\ wreq'.kind = "close"
        /\ wreq'.val # Nil)
       => LET X == Deref(wreq'.val) IN
          /\ X \in closed =>
                /\ wout'.val.Status = StatusBadRequest
                /\ wout'.val.Message = CloseMessage(FALSE, X)
                /\ sessions' = sessions
                /\ closed' = closed
          /\ wout'.val.Status = StatusOK =>
                /\ X \notin closed
                /\ X \in closed'
                /\ \A h \in Handlers :
                      (pc'[h] = "sendClose" /\ DecodeClose(hreq'[h].body).Id = Ptr(X))
                          => CloseResponse(sessions', X).Status = StatusBadRequest]_vars

\* A close of an identifier that a create delivered and an earlier close
\* removed is answered not found.
C20_Witness ==
    /\ wpc = "sendCloseRes"
    /\ wout.val.Status = StatusBadRequest
    /\ Deref(wreq.val) \in closed
    /\ Deref(wreq.val) \in returned
    /\ nreq = 3

====
